---------------------------- MODULE Spec2Model ----------------------------
(***************************************************************************)
(* A model of Source/SceneManager.cpp: the texture registry, the material  *)
(* list, the uniform dispatch operations, the lighting set-up and the      *)
(* object renderers of the scene, together with the part of the graphics   *)
(* state (blend flag, texture units, texture objects, shader uniforms)     *)
(* those operations write.                                                 *)
(*                                                                         *)
(* Real numbers are kept in fixed point: colours and light terms in        *)
(* thousandths, UV scales in tenths.                                       *)
(***************************************************************************)
EXTENDS Integers, Sequences, FiniteSets, TLC

(***************************************************************************)
(* Program constants.                                                      *)
(***************************************************************************)
TextureCapacity == 16          \* TEXTURE_INFO m_textureIDs[16]
NoTexture == -1                \* the "not found" sentinel of the lookups
EmptyTag == "/0"               \* the tag the constructor writes in every slot

(***************************************************************************)
(* Bounds of the model.                                                    *)
(***************************************************************************)
MaxLoaded == 18                \* cap on m_loadedTextures
MaxFrames == 2                 \* cap on RenderScene invocations
MaxCalls == 2                  \* cap on direct calls that grow the state
MaxLoadCalls == 2              \* cap on LoadSceneTextures invocations
MaxLightCalls == 2             \* cap on direct SetupSceneLights calls

VARIABLES
    m_pShaderManager,   \* "valid" or "NULL"
    m_textureIDs,       \* [0..MaxLoaded-1 -> [tag, ID]]; indices >= 16 lie past the array
    m_loadedTextures,
    m_objectMaterials,  \* sequence of OBJECT_MATERIAL
    flameColor,         \* the namespace-level glm::vec3
    meshes,             \* mesh kinds uploaded by m_basicMeshes
    glBlend,            \* GL_BLEND enabled
    glBlendFunc,        \* <<source factor, destination factor>>
    glActiveUnit,       \* glActiveTexture unit index
    glUnitBinding,      \* texture bound to GL_TEXTURE_2D of each unit
    glTextures,         \* texture names generated and not deleted
    glGenCount,         \* number of names glGenTextures has handed out
    liveImages,         \* stbi image buffers not freed
    uniforms,           \* values of the shader program's object uniforms
    lights,             \* values of the shader program's light uniforms
    files,              \* what stbi_load decodes each image file to (0: nothing)
    stack,              \* call stack of the running operation: <<function, position>>
    ret,                \* the last recorded operation: <<function, arguments..., value returned>>
    drawLog,            \* draws issued by the current RenderScene invocation
    started,            \* object renderers entered by the current RenderScene
    frames,             \* RenderScene invocations so far
    prepared,           \* PrepareScene invocations so far
    loadCalls,          \* LoadSceneTextures invocations so far
    bindCalls,          \* BindGLTextures invocations so far
    lightCalls,         \* SetupSceneLights invocations so far
    calls,              \* direct interface calls so far
    destroyed,          \* the destructor has run
    lastMode,           \* the later of the SetShaderColor / SetShaderTexture calls so far
    oobWrite,           \* a registry write has landed past slot 15
    ub,                 \* undefined behaviour has been executed
    halted              \* the process has crashed

regVars == <<m_textureIDs, m_loadedTextures>>
glTexVars == <<glActiveUnit, glUnitBinding, glTextures, glGenCount, liveImages>>
glBlendVars == <<glBlend, glBlendFunc>>
faultVars == <<oobWrite, ub, halted>>
countVars == <<frames, prepared, loadCalls, bindCalls, lightCalls, calls, destroyed>>
sceneVars == <<m_objectMaterials, flameColor, meshes, lights>>
logVars == <<drawLog, started>>
vars == <<m_pShaderManager, m_textureIDs, m_loadedTextures, m_objectMaterials,
          flameColor, meshes, glBlend, glBlendFunc, glActiveUnit, glUnitBinding,
          glTextures, glGenCount, liveImages, uniforms, lights, files, stack,
          ret, drawLog, started, frames, prepared, loadCalls, bindCalls, lightCalls,
          calls, destroyed, lastMode, oobWrite, ub, halted>>

Slots == 0 .. (MaxLoaded - 1)
Units == 0 .. (MaxLoaded - 1)

(***************************************************************************)
(* The nine image files of the scene and the tags they are registered      *)
(* under, in load order.                                                   *)
(***************************************************************************)
SceneTextures ==
    << <<"textures/knit.jpg", "fabric">>,
       <<"textures/glass.jpg", "glass">>,
       <<"textures/rubber.jpg", "rubber">>,
       <<"textures/candle.jpg", "candle">>,
       <<"textures/stainless.jpg", "stainless">>,
       <<"textures/metal.jpg", "metal">>,
       <<"textures/pages.jpg", "pages">>,
       <<"textures/leather.png", "leather">>,
       <<"textures/wood.jpg", "wood">> >>

SceneTags == {SceneTextures[i][2] : i \in 1 .. Len(SceneTextures)}

\* Tags used by the direct calls of the interface models: a scene tag, a tag
\* no load of the scene uses, and the constructor's placeholder.
ApiTags == {"glass", "lava", EmptyTag}

\* Image files of the direct CreateGLTexture calls of the interface model.
ApiFiles == {"rgba.png", "gray.png", "missing.jpg"}

\* What stbi_load hands back for each file: no image (0), or the number of
\* channels of the image.  The scene's files decode to 3 channels (jpg) or 4
\* (png), except that glass.jpg may be missing or grayscale and leather.png
\* may be missing or gray with alpha.
FileSystems ==
    { [f \in {SceneTextures[i][1] : i \in 1 .. Len(SceneTextures)} \cup ApiFiles |->
          CASE f = "textures/glass.jpg" -> g
            [] f = "textures/leather.png" -> l
            [] f = "rgba.png" -> 4
            [] f = "gray.png" -> 1
            [] f = "missing.jpg" -> 0
            [] OTHER -> 3]
      : g \in {0, 1, 3}, l \in {0, 2, 4} }

\* Samples, in thousandths, of the sine terms computed from glfwGetTime() and
\* of the draws of the uniform distribution over [-0.03, 0.03].
SineSamples == {-1000, -500, 0, 500, 1000}
JitterSamples == {-30, 0, 30}
\* The samples the scene's life cycle is run with.
SceneSines == {-1000, 1000}
SceneJitters == {-30, 30}

Running == ~halted
Idle == stack = << >>

(***************************************************************************)
(* Texture registry: lookups.                                              *)
(***************************************************************************)
\* The while loop of FindTextureID from position index on: the ID of the
\* first entry below m_loadedTextures whose tag compares equal, else -1.
RECURSIVE FindTextureIDFrom(_, _)
FindTextureIDFrom(index, tag) ==
    IF index < m_loadedTextures
    THEN IF m_textureIDs[index].tag = tag
         THEN m_textureIDs[index].ID
         ELSE FindTextureIDFrom(index + 1, tag)
    ELSE NoTexture

FindTextureID(tag) == FindTextureIDFrom(0, tag)

\* Seeded fault: the loop of FindTextureSlot runs over all 16 slots of the
\* array rather than the m_loadedTextures registered ones.
RECURSIVE FindTextureSlotOverCapacity(_, _)
FindTextureSlotOverCapacity(index, tag) ==
    IF index < TextureCapacity
    THEN IF m_textureIDs[index].tag = tag
         THEN index
         ELSE FindTextureSlotOverCapacity(index + 1, tag)
    ELSE NoTexture

\* Seeded fault: FindTextureSlot reports the position after the match.
RECURSIVE FindTextureSlotOffByOne(_, _)
FindTextureSlotOffByOne(index, tag) ==
    IF index < m_loadedTextures
    THEN IF m_textureIDs[index].tag = tag
         THEN index + 1
         ELSE FindTextureSlotOffByOne(index + 1, tag)
    ELSE NoTexture

\* The while loop of FindTextureSlot from position index on: the index of the
\* first entry below m_loadedTextures whose tag compares equal, else -1.
RECURSIVE FindTextureSlotFrom(_, _)
FindTextureSlotFrom(index, tag) ==
    IF index < m_loadedTextures
    THEN IF m_textureIDs[index].tag = tag
         THEN index
         ELSE FindTextureSlotFrom(index + 1, tag)
    ELSE NoTexture

FindTextureSlot(tag) == FindTextureSlotFrom(0, tag)

(***************************************************************************)
(* Texture registry: CreateGLTexture, BindGLTextures, DestroyGLTextures.   *)
(* These are the effects of one call on the registry and on the graphics   *)
(* state; the callers below add the position of the caller.                *)
(***************************************************************************)
\* glGenTextures(1, &name): the next unused texture name.
NewName == glGenCount + 1

\* Seeded fault: a load that decodes no image still takes a slot of the
\* registry.
CreateGLTextureNoImageTakesSlot(filename, tag) ==
    /\ m_loadedTextures' = m_loadedTextures + 1
    /\ ret' = <<"CreateGLTexture", filename, tag, FALSE>>
    /\ UNCHANGED <<m_textureIDs, glTexVars, faultVars>>

\* CreateGLTexture(filename, tag) when stbi_load hands back no image.
CreateGLTextureNoImage(filename, tag) ==
    /\ ret' = <<"CreateGLTexture", filename, tag, FALSE>>
    /\ UNCHANGED <<regVars, glTexVars, faultVars>>

\* Seeded fault: the channel count is tested after the registration, so an
\* image of 1 or 2 channels is registered before the function fails.
CreateGLTextureUnsupportedRegisters(filename, tag) ==
    /\ glGenCount' = NewName
    /\ glTextures' = glTextures \cup {NewName}
    /\ glUnitBinding' = [glUnitBinding EXCEPT ![glActiveUnit] = NewName]
    /\ liveImages' = liveImages + 1
    /\ m_textureIDs' = [m_textureIDs EXCEPT
                          ![m_loadedTextures] = [tag |-> tag, ID |-> NewName]]
    /\ m_loadedTextures' = m_loadedTextures + 1
    /\ ret' = <<"CreateGLTexture", filename, tag, FALSE>>
    /\ UNCHANGED <<glActiveUnit, faultVars>>

\* CreateGLTexture(filename, tag) for an image of neither 3 nor 4 channels:
\* the texture was generated and bound, and the function returns before
\* stbi_image_free, the unbind and the registration.
CreateGLTextureUnsupported(filename, tag) ==
    /\ glGenCount' = NewName
    /\ glTextures' = glTextures \cup {NewName}
    /\ glUnitBinding' = [glUnitBinding EXCEPT ![glActiveUnit] = NewName]
    /\ liveImages' = liveImages + 1
    /\ ret' = <<"CreateGLTexture", filename, tag, FALSE>>
    /\ UNCHANGED <<regVars, glActiveUnit, faultVars>>

\* CreateGLTexture(filename, tag) for a 3- or 4-channel image: upload, free,
\* unbind, then write entry m_loadedTextures and count it.  A write at index
\* 16 or more is past the end of m_textureIDs: the process either crashes
\* there or the write lands in the memory that follows the array.
CreateGLTextureRegister(filename, tag) ==
    /\ glGenCount' = NewName
    /\ glTextures' = glTextures \cup {NewName}
    /\ glUnitBinding' = [glUnitBinding EXCEPT ![glActiveUnit] = 0]
    /\ UNCHANGED <<glActiveUnit, liveImages>>
    /\ IF m_loadedTextures < TextureCapacity
       THEN /\ m_textureIDs' = [m_textureIDs EXCEPT
                                  ![m_loadedTextures] = [tag |-> tag, ID |-> NewName]]
            /\ m_loadedTextures' = m_loadedTextures + 1
            /\ ret' = <<"CreateGLTexture", filename, tag, TRUE>>
            /\ UNCHANGED faultVars
       ELSE /\ ub' = TRUE
            /\ \/ /\ halted' = TRUE
                  /\ UNCHANGED <<regVars, ret, oobWrite>>
               \/ /\ m_textureIDs' = [m_textureIDs EXCEPT
                                        ![m_loadedTextures] = [tag |-> tag, ID |-> NewName]]
                  /\ m_loadedTextures' = m_loadedTextures + 1
                  /\ oobWrite' = TRUE
                  /\ ret' = <<"CreateGLTexture", filename, tag, TRUE>>
                  /\ UNCHANGED halted

CreateGLTexture(filename, tag) ==
    LET colorChannels == files[filename]
    IN  IF colorChannels = 0
        THEN CreateGLTextureNoImage(filename, tag)
        ELSE IF colorChannels \in {3, 4}
             THEN CreateGLTextureRegister(filename, tag)
             ELSE CreateGLTextureUnsupported(filename, tag)

\* Seeded fault: the loop of BindGLTextures omits glActiveTexture, so every
\* texture is bound to the unit that was active.
RECURSIVE BindFromSameUnit(_, _)
BindFromSameUnit(index, binding) ==
    IF index < m_loadedTextures
    THEN BindFromSameUnit(index + 1,
                          [binding EXCEPT ![glActiveUnit] = m_textureIDs[index].ID])
    ELSE binding

\* The texture bindings after the loop of BindGLTextures has run for
\* i = index .. m_loadedTextures - 1, starting from binding.
RECURSIVE BindFrom(_, _)
BindFrom(index, binding) ==
    IF index < m_loadedTextures
    THEN BindFrom(index + 1, [binding EXCEPT ![index] = m_textureIDs[index].ID])
    ELSE binding

BindGLTextures ==
    /\ glUnitBinding' = BindFrom(0, glUnitBinding)
    /\ glActiveUnit' = IF m_loadedTextures > 0 THEN m_loadedTextures - 1 ELSE glActiveUnit
    /\ ret' = <<"BindGLTextures">>
    /\ UNCHANGED <<regVars, glTextures, glGenCount, liveImages>>

\* The registry after the loop of DestroyGLTextures has run for
\* i = index .. m_loadedTextures - 1: glGenTextures(1, &m_textureIDs[i].ID)
\* stores a newly generated name in each entry.
RECURSIVE DestroyFrom(_, _, _)
DestroyFrom(index, table, gen) ==
    IF index < m_loadedTextures
    THEN DestroyFrom(index + 1, [table EXCEPT ![index].ID = gen + 1], gen + 1)
    ELSE table

DestroyGLTextures ==
    /\ m_textureIDs' = DestroyFrom(0, m_textureIDs, glGenCount)
    /\ glGenCount' = glGenCount + m_loadedTextures
    /\ glTextures' = glTextures \cup (glGenCount + 1 .. glGenCount + m_loadedTextures)
    /\ ret' = <<"DestroyGLTextures">>
    /\ UNCHANGED <<m_loadedTextures, glActiveUnit, glUnitBinding, liveImages>>

(***************************************************************************)
(* Material list.                                                          *)
(***************************************************************************)
\* The value of a colour that was declared and never assigned, and an
\* OBJECT_MATERIAL local none of whose members was assigned.
Unassigned == << "unassigned" >>
UnassignedMaterial ==
    [diffuseColor |-> Unassigned, specularColor |-> Unassigned, shininess |-> -1]

Material(tag, diffuse, specular, shininess, emissive) ==
    [tag |-> tag, diffuseColor |-> diffuse, specularColor |-> specular,
     shininess |-> shininess, emissiveColor |-> emissive]

\* flameMaterial.emissiveColor *= sin(glfwGetTime() * 10) * 0.2 + 0.8, with
\* the sine given in thousandths.
FlameEmissive(sin10) ==
    LET flickerIntensity == (sin10 * 2) \div 10 + 800
    IN  << (1000 * flickerIntensity) \div 1000, (400 * flickerIntensity) \div 1000, 0 >>

\* Seeded fault: DefineObjectMaterials stops before the liquid material.
SceneMaterialsWithoutLiquid(sin10) ==
    << Material("backdrop", <<258, 258, 435>>, <<0, 0, 0>>, 300, Unassigned),
       Material("glass", <<300, 300, 300, 500>>, <<700, 600, 900>>, 95000, Unassigned),
       Material("metal", <<400, 400, 400>>, <<700, 700, 600>>, 52000, Unassigned),
       Material("wood", <<200, 200, 300>>, <<0, 0, 0>>, 100, Unassigned),
       Material("flame", <<1000, 500, 0>>, <<1000, 600, 300>>, 32000, FlameEmissive(sin10)) >>

\* The six materials DefineObjectMaterials pushes, in order.  A member the
\* code leaves unassigned (emissiveColor of all but the flame) is
\* Unassigned.  Components are listed as the code writes them (the glass and
\* liquid diffuse colours are written with a fourth, alpha, component).
SceneMaterials(sin10) ==
    << Material("backdrop", <<258, 258, 435>>, <<0, 0, 0>>, 300, Unassigned),
       Material("glass", <<300, 300, 300, 500>>, <<700, 600, 900>>, 95000, Unassigned),
       Material("metal", <<400, 400, 400>>, <<700, 700, 600>>, 52000, Unassigned),
       Material("wood", <<200, 200, 300>>, <<0, 0, 0>>, 100, Unassigned),
       Material("flame", <<1000, 500, 0>>, <<1000, 600, 300>>, 32000, FlameEmissive(sin10)),
       Material("liquid", <<396, 694, 996, 900>>, <<300, 500, 700>>, 50000, Unassigned) >>

DefineObjectMaterials(sin10) ==
    m_objectMaterials' = m_objectMaterials \o SceneMaterials(sin10)

\* The while loop of FindMaterial from position index on, over the local
\* material the caller passed: the three members copied from the first entry
\* whose tag compares equal, else the local as it was.
RECURSIVE FindMaterialFrom(_, _, _)
FindMaterialFrom(index, tag, material) ==
    IF index <= Len(m_objectMaterials)
    THEN IF m_objectMaterials[index].tag = tag
         THEN [diffuseColor |-> m_objectMaterials[index].diffuseColor,
               specularColor |-> m_objectMaterials[index].specularColor,
               shininess |-> m_objectMaterials[index].shininess]
         ELSE FindMaterialFrom(index + 1, tag, material)
    ELSE material

\* FindMaterial(tag, material): the value returned and the out-parameter.
FindMaterial(tag, material) ==
    IF Len(m_objectMaterials) = 0
    THEN [found |-> FALSE, material |-> material]
    ELSE [found |-> TRUE, material |-> FindMaterialFrom(1, tag, material)]

(***************************************************************************)
(* Uniform dispatch.                                                       *)
(***************************************************************************)
\* A call through a null m_pShaderManager: the process crashes, or the call
\* goes through without touching the uniforms.
NullDereference ==
    /\ ub' = TRUE
    /\ halted' \in BOOLEAN
    /\ UNCHANGED oobWrite

\* SetTransformations: the composed matrix is named by the parameters it was
\* composed from.
SetTransformations(transform) ==
    /\ uniforms' = IF m_pShaderManager # "NULL"
                   THEN [uniforms EXCEPT !.model = transform]
                   ELSE uniforms
    /\ UNCHANGED faultVars

\* Seeded fault: SetShaderColor sets the colour and leaves bUseTexture alone.
SetShaderColorKeepsFlag(color) ==
    /\ uniforms' = IF m_pShaderManager # "NULL"
                   THEN [uniforms EXCEPT !.objectColor = color]
                   ELSE uniforms
    /\ UNCHANGED faultVars

SetShaderColor(color) ==
    /\ uniforms' = IF m_pShaderManager # "NULL"
                   THEN [uniforms EXCEPT !.bUseTexture = 0, !.objectColor = color]
                   ELSE uniforms
    /\ UNCHANGED faultVars

\* Seeded fault: SetShaderTexture leaves the uniforms alone when the tag is
\* not registered.
SetShaderTextureSkipsUnregistered(textureTag) ==
    /\ uniforms' = IF m_pShaderManager # "NULL" /\ FindTextureSlot(textureTag) # NoTexture
                   THEN [uniforms EXCEPT !.bUseTexture = 1,
                                         !.objectTexture = FindTextureSlot(textureTag)]
                   ELSE uniforms
    /\ UNCHANGED faultVars

SetShaderTexture(textureTag) ==
    /\ uniforms' = IF m_pShaderManager # "NULL"
                   THEN [uniforms EXCEPT !.bUseTexture = 1,
                                         !.objectTexture = FindTextureSlot(textureTag)]
                   ELSE uniforms
    /\ UNCHANGED faultVars

SetTextureUVScale(u, v) ==
    /\ uniforms' = IF m_pShaderManager # "NULL"
                   THEN [uniforms EXCEPT !.UVscale = <<u, v>>]
                   ELSE uniforms
    /\ UNCHANGED faultVars

\* SetShaderMaterial: the local material is unassigned when FindMaterial is
\* called, and m_pShaderManager is used without a null test.
SetShaderMaterial(materialTag) ==
    IF Len(m_objectMaterials) > 0
    THEN LET r == FindMaterial(materialTag, Unassigned)
         IN  IF r.found
             THEN IF m_pShaderManager # "NULL"
                  THEN /\ uniforms' = [uniforms EXCEPT !.material = r.material]
                       /\ UNCHANGED faultVars
                  ELSE /\ NullDereference
                       /\ UNCHANGED uniforms
             ELSE UNCHANGED <<uniforms, faultVars>>
    ELSE UNCHANGED <<uniforms, faultVars>>

(***************************************************************************)
(* The model matrix of SetTransformations.  Matrices are 4 by 4, written   *)
(* as four rows that act on column vectors; angles are whole quarter turns *)
(* in degrees, whose sine and cosine are whole numbers.                    *)
(***************************************************************************)
\* cos and sin of glm::radians(degrees) for a multiple of 90 degrees.
CosDeg(degrees) ==
    CASE degrees % 360 = 0 -> 1
      [] degrees % 360 = 90 -> 0
      [] degrees % 360 = 180 -> -1
      [] degrees % 360 = 270 -> 0

SinDeg(degrees) ==
    CASE degrees % 360 = 0 -> 0
      [] degrees % 360 = 90 -> 1
      [] degrees % 360 = 180 -> 0
      [] degrees % 360 = 270 -> -1

\* glm::mat4 operator*
MatEntry(A, B, i, j) ==
    A[i][1] * B[1][j] + A[i][2] * B[2][j] + A[i][3] * B[3][j] + A[i][4] * B[4][j]

MatRow(A, B, i) ==
    <<MatEntry(A, B, i, 1), MatEntry(A, B, i, 2), MatEntry(A, B, i, 3), MatEntry(A, B, i, 4)>>

MatMul(A, B) == <<MatRow(A, B, 1), MatRow(A, B, 2), MatRow(A, B, 3), MatRow(A, B, 4)>>

\* glm::scale(scaleXYZ)
ScaleMatrix(scaleXYZ) ==
    << <<scaleXYZ[1], 0, 0, 0>>,
       <<0, scaleXYZ[2], 0, 0>>,
       <<0, 0, scaleXYZ[3], 0>>,
       <<0, 0, 0, 1>> >>

\* glm::rotate(glm::radians(degrees), glm::vec3(1, 0, 0))
RotationXMatrix(degrees) ==
    << <<1, 0, 0, 0>>,
       <<0, CosDeg(degrees), -SinDeg(degrees), 0>>,
       <<0, SinDeg(degrees), CosDeg(degrees), 0>>,
       <<0, 0, 0, 1>> >>

\* glm::rotate(glm::radians(degrees), glm::vec3(0, 1, 0))
RotationYMatrix(degrees) ==
    << <<CosDeg(degrees), 0, SinDeg(degrees), 0>>,
       <<0, 1, 0, 0>>,
       <<-SinDeg(degrees), 0, CosDeg(degrees), 0>>,
       <<0, 0, 0, 1>> >>

\* glm::rotate(glm::radians(degrees), glm::vec3(0, 0, 1))
RotationZMatrix(degrees) ==
    << <<CosDeg(degrees), -SinDeg(degrees), 0, 0>>,
       <<SinDeg(degrees), CosDeg(degrees), 0, 0>>,
       <<0, 0, 1, 0>>,
       <<0, 0, 0, 1>> >>

\* glm::translate(positionXYZ)
TranslationMatrix(positionXYZ) ==
    << <<1, 0, 0, positionXYZ[1]>>,
       <<0, 1, 0, positionXYZ[2]>>,
       <<0, 0, 1, positionXYZ[3]>>,
       <<0, 0, 0, 1>> >>

\* Seeded fault: the rotations are multiplied in the order X, Y, Z.
ComposeModelRotationsReversed(scaleXYZ, XrotationDegrees, YrotationDegrees, ZrotationDegrees, positionXYZ) ==
    MatMul(MatMul(MatMul(MatMul(TranslationMatrix(positionXYZ),
                                RotationXMatrix(XrotationDegrees)),
                         RotationYMatrix(YrotationDegrees)),
                  RotationZMatrix(ZrotationDegrees)),
           ScaleMatrix(scaleXYZ))

\* modelView = translation * rotationZ * rotationY * rotationX * scale
ComposeModel(scaleXYZ, XrotationDegrees, YrotationDegrees, ZrotationDegrees, positionXYZ) ==
    MatMul(MatMul(MatMul(MatMul(TranslationMatrix(positionXYZ),
                                RotationZMatrix(ZrotationDegrees)),
                         RotationYMatrix(YrotationDegrees)),
                  RotationXMatrix(XrotationDegrees)),
           ScaleMatrix(scaleXYZ))

(***************************************************************************)
(* Lighting set-up.                                                        *)
(***************************************************************************)
\* Seeded fault: glm::clamp hands its argument back.
ClampNone(x, lo, hi) == x

Clamp(x, lo, hi) == IF x < lo THEN lo ELSE IF x > hi THEN hi ELSE x

Scale3(c, k) == << (c[1] * k) \div 1000, (c[2] * k) \div 1000, (c[3] * k) \div 1000 >>

\* The flame colour of SetupSceneLights from sin(flameTime * 3) and the three
\* draws of distribution(generator), all in thousandths.
FlameColor(sin3, j1, j2, j3) ==
    LET flickerFactor == (sin3 * 3) \div 10 + 500
        red == 1000 + j1
        green == 200 + (flickerFactor * 2) \div 10 + j2
        blue == 100 + j3 \div 10
    IN  << Clamp(red, 0, 1000), Clamp(green, 0, 1000), Clamp(blue, 0, 1000) >>

PointLight(position, ambient, diffuse, specular) ==
    [position |-> position, ambient |-> ambient, diffuse |-> diffuse,
     specular |-> specular, bActive |-> TRUE]

\* The light uniforms SetupSceneLights writes, given the flame colour.
SceneLights(flame) ==
    [bUseLighting |-> TRUE,
     directionalLight |->
        [direction |-> <<-50, -300, -100>>, ambient |-> <<80, 80, 100>>,
         diffuse |-> <<300, 300, 500>>, specular |-> <<600, 600, 700>>,
         bActive |-> TRUE],
     pointLights |->
        [i \in 0 .. 3 |->
            CASE i = 3 -> PointLight(<<-5000, 8800, 900>>, Scale3(flame, 100),
                                     flame, Scale3(flame, 800))
              [] i = 1 -> PointLight(<<-4000, 8000, 0>>, <<50, 40, 30>>,
                                     <<400, 300, 200>>, <<500, 400, 300>>)
              [] i = 2 -> PointLight(<<3800, 5500, 4000>>, <<80, 60, 100>>,
                                     <<200, 200, 500>>, <<300, 300, 600>>)
              [] OTHER -> lights.pointLights[i]],
     spotLight |->
        [ambient |-> <<100, 100, 150>>, diffuse |-> <<600, 600, 900>>,
         specular |-> <<900, 900, 1200>>, constant |-> 1000, linear |-> 90,
         quadratic |-> 32, cutOffDegrees |-> 35, outerCutOffDegrees |-> 45,
         bActive |-> TRUE]]

\* SetupSceneLights uses m_pShaderManager without a null test, from its first
\* statement on.
SetupSceneLights(sin3, j1, j2, j3) ==
    IF m_pShaderManager # "NULL"
    THEN /\ flameColor' = FlameColor(sin3, j1, j2, j3)
         /\ lights' = SceneLights(FlameColor(sin3, j1, j2, j3))
         /\ UNCHANGED faultVars
    ELSE /\ NullDereference
         /\ flameColor' \in {flameColor, FlameColor(sin3, j1, j2, j3)}
         /\ UNCHANGED lights

\* The light uniforms of a shader program nothing has written.
NoLight ==
    [position |-> <<0, 0, 0>>, ambient |-> <<0, 0, 0>>, diffuse |-> <<0, 0, 0>>,
     specular |-> <<0, 0, 0>>, bActive |-> FALSE]

InitialLights ==
    [bUseLighting |-> FALSE,
     directionalLight |->
        [direction |-> <<0, 0, 0>>, ambient |-> <<0, 0, 0>>, diffuse |-> <<0, 0, 0>>,
         specular |-> <<0, 0, 0>>, bActive |-> FALSE],
     pointLights |-> [i \in 0 .. 3 |-> NoLight],
     spotLight |->
        [ambient |-> <<0, 0, 0>>, diffuse |-> <<0, 0, 0>>, specular |-> <<0, 0, 0>>,
         constant |-> 0, linear |-> 0, quadratic |-> 0, cutOffDegrees |-> 0,
         outerCutOffDegrees |-> 0, bActive |-> FALSE]]

\* The object uniforms of a shader program nothing has written.
InitialUniforms ==
    [model |-> "none", bUseTexture |-> 0, objectColor |-> <<0, 0, 0, 0>>,
     objectTexture |-> 0, UVscale |-> <<0, 0>>,
     material |-> [diffuseColor |-> <<0, 0, 0>>, specularColor |-> <<0, 0, 0>>,
                   shininess |-> 0]]

(***************************************************************************)
(* The statements of the scene's functions, in program order.  A statement *)
(* is <<operation, arguments...>>; "call" enters another function of the   *)
(* table.  SetTransformations is listed with the source line of the call   *)
(* (the loop over the cauldron's legs with the iteration), which names the *)
(* literal scale, rotation and position passed there.                      *)
(***************************************************************************)
\* Seeded fault: LoadSceneTextures omits the load of the rubber texture.
LoadSceneTexturesScriptWithoutRubber ==
    [i \in 1 .. Len(SceneTextures) - 1 |->
        IF i < 3
        THEN <<"CreateGLTexture", SceneTextures[i][1], SceneTextures[i][2]>>
        ELSE <<"CreateGLTexture", SceneTextures[i + 1][1], SceneTextures[i + 1][2]>>]
    \o << <<"BindGLTextures">> >>

\* Seeded fault: LoadSceneTextures binds the textures before it loads them.
LoadSceneTexturesScriptBindsFirst ==
    << <<"BindGLTextures">> >>
    \o [i \in 1 .. Len(SceneTextures) |->
           <<"CreateGLTexture", SceneTextures[i][1], SceneTextures[i][2]>>]

\* LoadSceneTextures, lines 396-440.
LoadSceneTexturesScript ==
    [i \in 1 .. Len(SceneTextures) |->
        <<"CreateGLTexture", SceneTextures[i][1], SceneTextures[i][2]>>]
    \o << <<"BindGLTextures">> >>

\* PrepareScene, lines 585-611.
PrepareSceneScript ==
    << <<"call", "LoadSceneTextures">>,
       <<"DefineObjectMaterials">>,
       <<"SetupSceneLights">>,
       <<"LoadMesh", "Box">>,
       <<"LoadMesh", "Plane">>,
       <<"LoadMesh", "Cylinder">>,
       <<"LoadMesh", "Cone">>,
       <<"LoadMesh", "Prism">>,
       <<"LoadMesh", "Pyramid4">>,
       <<"LoadMesh", "Sphere">>,
       <<"LoadMesh", "TaperedCylinder">>,
       <<"LoadMesh", "Torus">>,
       <<"LoadMesh", "Sphere">>,
       <<"LoadMesh", "Cone">> >>

\* Seeded fault: RenderScene calls the candle before the potion bottle.
RenderSceneScriptSwapped ==
    << <<"call", "RenderTable">>,
       <<"call", "RenderBackdrop">>,
       <<"call", "RenderCandle">>,
       <<"call", "RenderPotionBottle">>,
       <<"call", "RenderBottomBook">>,
       <<"call", "RenderTopBook">>,
       <<"call", "RenderCauldron">> >>

\* RenderScene, lines 619-628.
RenderSceneScript ==
    << <<"call", "RenderTable">>,
       <<"call", "RenderBackdrop">>,
       <<"call", "RenderPotionBottle">>,
       <<"call", "RenderCandle">>,
       <<"call", "RenderBottomBook">>,
       <<"call", "RenderTopBook">>,
       <<"call", "RenderCauldron">> >>

\* RenderTable, lines 636-706.
RenderTableScript ==
    << <<"SetTransformations", "SceneManager.cpp:661">>,
       <<"SetShaderColor", <<1000, 1000, 1000, 1000>>>>,
       <<"SetShaderTexture", "fabric">>,
       <<"SetTextureUVScale", 10, 10>>,
       <<"SetShaderMaterial", "wood">>,
       <<"Draw", "Box">>,
       <<"SetTransformations", "SceneManager.cpp:692">>,
       <<"SetShaderColor", <<390, 240, 120, 1000>>>>,
       <<"SetShaderTexture", "wood">>,
       <<"SetShaderMaterial", "wood">>,
       <<"Draw", "Box">> >>

\* RenderBackdrop, lines 714-750.
RenderBackdropScript ==
    << <<"SetTransformations", "SceneManager.cpp:737">>,
       <<"SetShaderTexture", "fabric">>,
       <<"SetTextureUVScale", 100, 100>>,
       <<"SetShaderMaterial", "backdrop">>,
       <<"Draw", "Plane">> >>

\* RenderPotionBottle, lines 758-955.
RenderPotionBottleScript ==
    << <<"glEnable">>,
       <<"glBlendFunc">>,
       <<"SetTransformations", "SceneManager.cpp:784">>,
       <<"SetShaderColor", <<396, 694, 996, 700>>>>,
       <<"SetShaderMaterial", "liquid">>,
       <<"Draw", "Box">>,
       <<"SetTransformations", "SceneManager.cpp:810">>,
       <<"SetShaderColor", <<196, 294, 796, 650>>>>,
       <<"SetShaderMaterial", "glass">>,
       <<"Draw", "BoxSide.front">>,
       <<"Draw", "BoxSide.back">>,
       <<"Draw", "BoxSide.left">>,
       <<"Draw", "BoxSide.right">>,
       <<"Draw", "BoxSide.bottom">>,
       <<"SetTransformations", "SceneManager.cpp:845">>,
       <<"SetShaderColor", <<196, 294, 796, 650>>>>,
       <<"SetShaderMaterial", "glass">>,
       <<"Draw", "Pyramid4">>,
       <<"SetTransformations", "SceneManager.cpp:876">>,
       <<"SetShaderColor", <<196, 294, 796, 650>>>>,
       <<"SetShaderMaterial", "glass">>,
       <<"Draw", "Cylinder">>,
       <<"SetTransformations", "SceneManager.cpp:907">>,
       <<"SetShaderColor", <<196, 294, 796, 650>>>>,
       <<"SetShaderMaterial", "glass">>,
       <<"Draw", "Torus">>,
       <<"SetTransformations", "SceneManager.cpp:938">>,
       <<"SetShaderTexture", "rubber">>,
       <<"SetTextureUVScale", 20, 20>>,
       <<"SetShaderMaterial", "wood">>,
       <<"Draw", "TaperedCylinder">>,
       <<"glDisable">> >>

\* RenderCandle, lines 963-1261.
RenderCandleScript ==
    << <<"SetTransformations", "SceneManager.cpp:990">>,
       <<"SetShaderColor", <<200, 200, 200, 1000>>>>,
       <<"SetShaderTexture", "metal">>,
       <<"SetShaderMaterial", "metal">>,
       <<"Draw", "Torus">>,
       <<"SetTransformations", "SceneManager.cpp:1021">>,
       <<"SetShaderColor", <<200, 200, 200, 1000>>>>,
       <<"SetShaderTexture", "metal">>,
       <<"SetShaderMaterial", "metal">>,
       <<"Draw", "TaperedCylinder">>,
       <<"SetTransformations", "SceneManager.cpp:1052">>,
       <<"SetShaderColor", <<200, 200, 200, 1000>>>>,
       <<"SetShaderTexture", "metal">>,
       <<"SetShaderMaterial", "metal">>,
       <<"Draw", "Cylinder">>,
       <<"SetTransformations", "SceneManager.cpp:1083">>,
       <<"SetShaderColor", <<200, 200, 200, 1000>>>>,
       <<"SetShaderTexture", "metal">>,
       <<"SetShaderMaterial", "metal">>,
       <<"Draw", "TaperedCylinder">>,
       <<"SetTransformations", "SceneManager.cpp:1114">>,
       <<"SetShaderColor", <<200, 200, 200, 1000>>>>,
       <<"SetShaderTexture", "metal">>,
       <<"SetShaderMaterial", "metal">>,
       <<"Draw", "TaperedCylinder">>,
       <<"SetTransformations", "SceneManager.cpp:1145">>,
       <<"SetShaderColor", <<200, 200, 200, 1000>>>>,
       <<"SetShaderTexture", "metal">>,
       <<"SetShaderMaterial", "metal">>,
       <<"Draw", "Torus">>,
       <<"SetTransformations", "SceneManager.cpp:1176">>,
       <<"SetShaderColor", <<1000, 1000, 1000, 1000>>>>,
       <<"SetShaderTexture", "candle">>,
       <<"SetTextureUVScale", 20, 10>>,
       <<"SetShaderMaterial", "wood">>,
       <<"Draw", "Cylinder">>,
       <<"SetTransformations", "SceneManager.cpp:1207">>,
       <<"SetShaderColor", <<100, 100, 100, 1000>>>>,
       <<"SetShaderTexture", "rubber">>,
       <<"SetShaderMaterial", "wood">>,
       <<"Draw", "Cone">>,
       <<"SetTransformations", "SceneManager.cpp:1238">>,
       <<"SetShaderColorFlame">>,
       <<"SetShaderMaterial", "flame">>,
       <<"glEnable">>,
       <<"glBlendFunc">>,
       <<"Draw", "Cone">>,
       <<"glDisable">> >>

\* RenderBottomBook, lines 1269-1409.
RenderBottomBookScript ==
    << <<"SetTransformations", "SceneManager.cpp:1295">>,
       <<"SetShaderColor", <<659, 576, 439, 1000>>>>,
       <<"SetShaderTexture", "pages">>,
       <<"SetTextureUVScale", 20, 5>>,
       <<"SetShaderMaterial", "wood">>,
       <<"Draw", "BoxSide.front">>,
       <<"Draw", "BoxSide.back">>,
       <<"Draw", "BoxSide.left">>,
       <<"Draw", "BoxSide.right">>,
       <<"SetTransformations", "SceneManager.cpp:1330">>,
       <<"SetShaderColor", <<360, 250, 200, 1000>>>>,
       <<"SetShaderTexture", "leather">>,
       <<"SetTextureUVScale", 5, 60>>,
       <<"SetShaderMaterial", "wood">>,
       <<"Draw", "Box">>,
       <<"SetTransformations", "SceneManager.cpp:1362">>,
       <<"SetShaderColor", <<360, 250, 200, 1000>>>>,
       <<"SetShaderTexture", "leather">>,
       <<"SetTextureUVScale", 5, 60>>,
       <<"SetShaderMaterial", "wood">>,
       <<"Draw", "Box">>,
       <<"SetTransformations", "SceneManager.cpp:1394">>,
       <<"SetShaderColor", <<360, 250, 200, 1000>>>>,
       <<"SetShaderTexture", "leather">>,
       <<"SetTextureUVScale", 5, 60>>,
       <<"SetShaderMaterial", "wood">>,
       <<"Draw", "Box">> >>

\* RenderTopBook, lines 1417-1562.
RenderTopBookScript ==
    << <<"SetTransformations", "SceneManager.cpp:1447">>,
       <<"SetShaderTexture", "pages">>,
       <<"SetTextureUVScale", 10, 10>>,
       <<"SetShaderMaterial", "wood">>,
       <<"Draw", "BoxSide.front">>,
       <<"Draw", "BoxSide.back">>,
       <<"Draw", "BoxSide.left">>,
       <<"Draw", "BoxSide.right">>,
       <<"SetTransformations", "SceneManager.cpp:1482">>,
       <<"SetShaderColor", <<360, 250, 200, 1000>>>>,
       <<"SetShaderTexture", "leather">>,
       <<"SetShaderMaterial", "wood">>,
       <<"Draw", "Box">>,
       <<"SetTransformations", "SceneManager.cpp:1514">>,
       <<"SetShaderColor", <<360, 250, 200, 1000>>>>,
       <<"SetShaderTexture", "leather">>,
       <<"SetShaderMaterial", "wood">>,
       <<"Draw", "Box">>,
       <<"SetTransformations", "SceneManager.cpp:1546">>,
       <<"SetShaderColor", <<360, 250, 200, 1000>>>>,
       <<"SetShaderTexture", "leather">>,
       <<"SetTextureUVScale", 5, 60>>,
       <<"SetShaderMaterial", "wood">>,
       <<"Draw", "Box">> >>

\* RenderCauldron, lines 1570-1687.
RenderCauldronScript ==
    << <<"SetTransformations", "SceneManager.cpp:1589">>,
       <<"SetShaderColor", <<100, 100, 100, 1000>>>>,
       <<"SetShaderTexture", "metal">>,
       <<"SetTextureUVScale", 10, 10>>,
       <<"SetShaderMaterial", "metal">>,
       <<"Draw", "HalfSphere">>,
       <<"SetTransformations", "SceneManager.cpp:1614">>,
       <<"SetShaderColor", <<100, 100, 100, 1000>>>>,
       <<"SetShaderTexture", "metal">>,
       <<"SetTextureUVScale", 10, 10>>,
       <<"SetShaderMaterial", "metal">>,
       <<"Draw", "Torus">>,
       <<"SetTransformations", "SceneManager.cpp:1644[0]">>,
       <<"SetShaderColor", <<100, 100, 100, 1000>>>>,
       <<"SetShaderTexture", "metal">>,
       <<"SetTextureUVScale", 10, 10>>,
       <<"SetShaderMaterial", "metal">>,
       <<"Draw", "TaperedCylinder">>,
       <<"SetTransformations", "SceneManager.cpp:1644[1]">>,
       <<"SetShaderColor", <<100, 100, 100, 1000>>>>,
       <<"SetShaderTexture", "metal">>,
       <<"SetTextureUVScale", 10, 10>>,
       <<"SetShaderMaterial", "metal">>,
       <<"Draw", "TaperedCylinder">>,
       <<"SetTransformations", "SceneManager.cpp:1644[2]">>,
       <<"SetShaderColor", <<100, 100, 100, 1000>>>>,
       <<"SetShaderTexture", "metal">>,
       <<"SetTextureUVScale", 10, 10>>,
       <<"SetShaderMaterial", "metal">>,
       <<"Draw", "TaperedCylinder">>,
       <<"glEnable">>,
       <<"glBlendFunc">>,
       <<"SetTransformations", "SceneManager.cpp:1674">>,
       <<"SetShaderColor", <<300, 800, 1000, 650>>>>,
       <<"SetShaderMaterial", "liquid">>,
       <<"Draw", "Cylinder">>,
       <<"glDisable">> >>

Script(function) ==
    CASE function = "PrepareScene" -> PrepareSceneScript
      [] function = "LoadSceneTextures" -> LoadSceneTexturesScript
      [] function = "RenderScene" -> RenderSceneScript
      [] function = "RenderTable" -> RenderTableScript
      [] function = "RenderBackdrop" -> RenderBackdropScript
      [] function = "RenderPotionBottle" -> RenderPotionBottleScript
      [] function = "RenderCandle" -> RenderCandleScript
      [] function = "RenderBottomBook" -> RenderBottomBookScript
      [] function = "RenderTopBook" -> RenderTopBookScript
      [] function = "RenderCauldron" -> RenderCauldronScript

Renderers ==
    {"RenderTable", "RenderBackdrop", "RenderPotionBottle", "RenderCandle",
     "RenderBottomBook", "RenderTopBook", "RenderCauldron"}

(***************************************************************************)
(* Execution of the statements.  The top of the stack is the function      *)
(* being executed and the position of its next statement.                  *)
(***************************************************************************)
Function == stack[Len(stack)][1]
Position == stack[Len(stack)][2]
Statement == Script(Function)[Position]
At(operation) ==
    /\ Running
    /\ stack # << >>
    /\ Position <= Len(Script(Function))
    /\ Statement[1] = operation
Advanced == [stack EXCEPT ![Len(stack)] = <<@[1], @[2] + 1>>]

\* A call of one of the scene's functions from another.
EnterFunction ==
    /\ At("call")
    /\ stack' = Append(Advanced, <<Statement[2], 1>>)
    /\ started' = IF Function = "RenderScene" THEN Append(started, Statement[2]) ELSE started
    /\ loadCalls' = IF Statement[2] = "LoadSceneTextures" THEN loadCalls + 1 ELSE loadCalls
    /\ UNCHANGED <<m_pShaderManager, regVars, sceneVars, glBlendVars, glTexVars, uniforms,
                   files, ret, drawLog, frames, prepared, lightCalls, bindCalls, calls, destroyed,
                   lastMode, faultVars>>

\* The function on top of the stack has executed its last statement.
ReturnFromFunction ==
    /\ Running
    /\ stack # << >>
    /\ Position > Len(Script(Function))
    /\ stack' = SubSeq(stack, 1, Len(stack) - 1)
    /\ UNCHANGED <<m_pShaderManager, regVars, sceneVars, glBlendVars, glTexVars, uniforms,
                   files, ret, logVars, countVars, lastMode, faultVars>>

StepCreateGLTexture ==
    /\ At("CreateGLTexture")
    /\ m_loadedTextures < MaxLoaded
    /\ CreateGLTexture(Statement[2], Statement[3])
    /\ stack' = Advanced
    /\ UNCHANGED <<m_pShaderManager, sceneVars, glBlendVars, uniforms, files, logVars,
                   countVars, lastMode>>

StepBindGLTextures ==
    /\ At("BindGLTextures")
    /\ BindGLTextures
    /\ bindCalls' = bindCalls + 1
    /\ stack' = Advanced
    /\ UNCHANGED <<m_pShaderManager, sceneVars, glBlendVars, uniforms, files, logVars,
                   frames, prepared, lightCalls, loadCalls, calls, destroyed, lastMode, faultVars>>

StepDefineObjectMaterials ==
    /\ At("DefineObjectMaterials")
    /\ \E sin10 \in SceneSines : DefineObjectMaterials(sin10)
    /\ stack' = Advanced
    /\ UNCHANGED <<m_pShaderManager, regVars, flameColor, meshes, lights, glBlendVars,
                   glTexVars, uniforms, files, ret, logVars, countVars, lastMode, faultVars>>

StepSetupSceneLights ==
    /\ At("SetupSceneLights")
    /\ \E sin3 \in SceneSines, j1 \in SceneJitters, j2 \in SceneJitters, j3 \in SceneJitters :
          SetupSceneLights(sin3, j1, j2, j3)
    /\ lightCalls' = lightCalls + 1
    /\ stack' = Advanced
    /\ UNCHANGED <<m_pShaderManager, regVars, m_objectMaterials, meshes, glBlendVars,
                   glTexVars, uniforms, files, ret, logVars, frames, prepared, loadCalls,
                   bindCalls, calls, destroyed, lastMode>>

\* m_basicMeshes->Load...Mesh()
StepLoadMesh ==
    /\ At("LoadMesh")
    /\ meshes' = meshes \cup {Statement[2]}
    /\ stack' = Advanced
    /\ UNCHANGED <<m_pShaderManager, regVars, m_objectMaterials, flameColor, lights,
                   glBlendVars, glTexVars, uniforms, files, ret, logVars, countVars,
                   lastMode, faultVars>>

StepSetTransformations ==
    /\ At("SetTransformations")
    /\ SetTransformations(Statement[2])
    /\ stack' = Advanced
    /\ UNCHANGED <<m_pShaderManager, regVars, sceneVars, glBlendVars, glTexVars, files,
                   ret, logVars, countVars, lastMode>>

StepSetShaderColor ==
    /\ At("SetShaderColor")
    /\ SetShaderColor(Statement[2])
    /\ lastMode' = "color"
    /\ stack' = Advanced
    /\ UNCHANGED <<m_pShaderManager, regVars, sceneVars, glBlendVars, glTexVars, files,
                   ret, logVars, countVars>>

\* The alpha of the flame in RenderCandle: clamp(sin(time * 2.5) * 0.2 + 0.6,
\* 0.5, 0.8), with the sine given in thousandths.
FlameAlpha(sin25) == Clamp((sin25 * 2) \div 10 + 600, 500, 800)

\* Seeded fault: the flame is drawn in a constant orange, whatever the
\* colour of the light.
StepSetShaderColorFlameConstant ==
    /\ At("SetShaderColorFlame")
    /\ \E sin25 \in SceneSines : SetShaderColor(<<1000, 500, 0, FlameAlpha(sin25)>>)
    /\ lastMode' = "color"
    /\ stack' = Advanced
    /\ UNCHANGED <<m_pShaderManager, regVars, sceneVars, glBlendVars, glTexVars, files,
                   ret, logVars, countVars>>

\* RenderCandle, lines 1245-1250: SetShaderColor with the flame colour.
StepSetShaderColorFlame ==
    /\ At("SetShaderColorFlame")
    /\ \E sin25 \in SceneSines :
          SetShaderColor(<<flameColor[1], flameColor[2], flameColor[3], FlameAlpha(sin25)>>)
    /\ lastMode' = "color"
    /\ stack' = Advanced
    /\ UNCHANGED <<m_pShaderManager, regVars, sceneVars, glBlendVars, glTexVars, files,
                   ret, logVars, countVars>>

StepSetShaderTexture ==
    /\ At("SetShaderTexture")
    /\ SetShaderTexture(Statement[2])
    /\ lastMode' = "texture"
    /\ stack' = Advanced
    /\ UNCHANGED <<m_pShaderManager, regVars, sceneVars, glBlendVars, glTexVars, files,
                   ret, logVars, countVars>>

StepSetTextureUVScale ==
    /\ At("SetTextureUVScale")
    /\ SetTextureUVScale(Statement[2], Statement[3])
    /\ stack' = Advanced
    /\ UNCHANGED <<m_pShaderManager, regVars, sceneVars, glBlendVars, glTexVars, files,
                   ret, logVars, countVars, lastMode>>

\* Seeded fault: SetShaderMaterial pushes the material it sends onto the
\* material list.
StepSetShaderMaterialAppends ==
    /\ At("SetShaderMaterial")
    /\ SetShaderMaterial(Statement[2])
    /\ m_objectMaterials' =
          Append(m_objectMaterials, Material(Statement[2], Unassigned, Unassigned, 0, Unassigned))
    /\ stack' = Advanced
    /\ UNCHANGED <<m_pShaderManager, regVars, flameColor, meshes, lights, glBlendVars,
                   glTexVars, files, ret, logVars, countVars, lastMode>>

StepSetShaderMaterial ==
    /\ At("SetShaderMaterial")
    /\ SetShaderMaterial(Statement[2])
    /\ stack' = Advanced
    /\ UNCHANGED <<m_pShaderManager, regVars, sceneVars, glBlendVars, glTexVars, files,
                   ret, logVars, countVars, lastMode>>

\* The mesh a draw call reads: a side of the box is drawn from the box mesh.
MeshOf(draw) ==
    IF draw \in {"BoxSide.front", "BoxSide.back", "BoxSide.left", "BoxSide.right",
                 "BoxSide.top", "BoxSide.bottom"}
    THEN "Box"
    ELSE draw

\* m_basicMeshes->Draw...Mesh(): the draw is issued with the graphics and
\* uniform state of the moment.
StepDraw ==
    /\ At("Draw")
    /\ drawLog' = Append(drawLog,
            [renderer |-> Function, draw |-> Statement[2], blend |-> glBlend,
             model |-> uniforms.model, bUseTexture |-> uniforms.bUseTexture,
             objectColor |-> uniforms.objectColor,
             objectTexture |-> uniforms.objectTexture, UVscale |-> uniforms.UVscale,
             uploaded |-> MeshOf(Statement[2]) \in meshes])
    /\ stack' = Advanced
    /\ UNCHANGED <<m_pShaderManager, regVars, sceneVars, glBlendVars, glTexVars, uniforms,
                   files, ret, started, countVars, lastMode, faultVars>>

\* glEnable(GL_BLEND)
StepEnableBlend ==
    /\ At("glEnable")
    /\ glBlend' = TRUE
    /\ stack' = Advanced
    /\ UNCHANGED <<m_pShaderManager, regVars, sceneVars, glBlendFunc, glTexVars, uniforms,
                   files, ret, logVars, countVars, lastMode, faultVars>>

\* glBlendFunc(GL_SRC_ALPHA, GL_ONE_MINUS_SRC_ALPHA)
StepBlendFunc ==
    /\ At("glBlendFunc")
    /\ glBlendFunc' = <<"GL_SRC_ALPHA", "GL_ONE_MINUS_SRC_ALPHA">>
    /\ stack' = Advanced
    /\ UNCHANGED <<m_pShaderManager, regVars, sceneVars, glBlend, glTexVars, uniforms,
                   files, ret, logVars, countVars, lastMode, faultVars>>

\* Seeded fault: the glDisable(GL_BLEND) statements are missing.
StepDisableBlendOmitted ==
    /\ At("glDisable")
    /\ stack' = Advanced
    /\ UNCHANGED <<m_pShaderManager, regVars, sceneVars, glBlendVars, glTexVars, uniforms,
                   files, ret, logVars, countVars, lastMode, faultVars>>

\* glDisable(GL_BLEND)
StepDisableBlend ==
    /\ At("glDisable")
    /\ glBlend' = FALSE
    /\ stack' = Advanced
    /\ UNCHANGED <<m_pShaderManager, regVars, sceneVars, glBlendFunc, glTexVars, uniforms,
                   files, ret, logVars, countVars, lastMode, faultVars>>

(***************************************************************************)
(* The life cycle of the scene manager in the application: constructed     *)
(* with the application's shader manager, PrepareScene once, RenderScene   *)
(* once per frame, then destroyed.                                         *)
(***************************************************************************)
\* The state the constructor leaves, over a graphics context and a shader
\* program in their initial state.
Constructed(shaderManager, fileSystem) ==
    /\ m_pShaderManager = shaderManager
    /\ m_textureIDs = [i \in Slots |-> [tag |-> EmptyTag, ID |-> NoTexture]]
    /\ m_loadedTextures = 0
    /\ m_objectMaterials = << >>
    /\ flameColor = <<0, 0, 0>>
    /\ meshes = {}
    /\ glBlend = FALSE
    /\ glBlendFunc = <<"GL_ONE", "GL_ZERO">>
    /\ glActiveUnit = 0
    /\ glUnitBinding = [u \in Units |-> 0]
    /\ glTextures = {}
    /\ glGenCount = 0
    /\ liveImages = 0
    /\ uniforms = InitialUniforms
    /\ lights = InitialLights
    /\ files = fileSystem
    /\ stack = << >>
    /\ ret = <<"none">>
    /\ drawLog = << >>
    /\ started = << >>
    /\ frames = 0
    /\ prepared = 0
    /\ loadCalls = 0
    /\ bindCalls = 0
    /\ lightCalls = 0
    /\ calls = 0
    /\ destroyed = FALSE
    /\ lastMode = "none"
    /\ oobWrite = FALSE
    /\ ub = FALSE
    /\ halted = FALSE

Init == \E fileSystem \in FileSystems : Constructed("valid", fileSystem)

CallPrepareScene ==
    /\ Running /\ Idle /\ ~destroyed
    /\ prepared = 0
    /\ prepared' = 1
    /\ stack' = << <<"PrepareScene", 1>> >>
    /\ UNCHANGED <<m_pShaderManager, regVars, sceneVars, glBlendVars, glTexVars, uniforms,
                   files, ret, logVars, frames, loadCalls, bindCalls, lightCalls, calls, destroyed,
                   lastMode, faultVars>>

CallRenderScene ==
    /\ Running /\ Idle /\ ~destroyed
    /\ prepared = 1
    /\ frames < MaxFrames
    /\ frames' = frames + 1
    /\ stack' = << <<"RenderScene", 1>> >>
    /\ drawLog' = << >>
    /\ started' = << >>
    /\ UNCHANGED <<m_pShaderManager, regVars, sceneVars, glBlendVars, glTexVars, uniforms,
                   files, ret, prepared, lightCalls, loadCalls, bindCalls, calls, destroyed, lastMode,
                   faultVars>>

\* ~SceneManager, lines 59-71.
Destructor ==
    /\ Running /\ Idle /\ ~destroyed
    /\ m_pShaderManager' = "NULL"
    /\ meshes' = {}
    /\ DestroyGLTextures
    /\ destroyed' = TRUE
    /\ UNCHANGED <<m_objectMaterials, flameColor, lights, glBlendVars, uniforms, files,
                   stack, logVars, frames, prepared, lightCalls, loadCalls, bindCalls, calls,
                   lastMode, faultVars>>

Step ==
    \/ EnterFunction
    \/ ReturnFromFunction
    \/ StepCreateGLTexture
    \/ StepBindGLTextures
    \/ StepDefineObjectMaterials
    \/ StepSetupSceneLights
    \/ StepLoadMesh
    \/ StepSetTransformations
    \/ StepSetShaderColor
    \/ StepSetShaderColorFlame
    \/ StepSetShaderTexture
    \/ StepSetTextureUVScale
    \/ StepSetShaderMaterial
    \/ StepDraw
    \/ StepEnableBlend
    \/ StepBlendFunc
    \/ StepDisableBlend

Next ==
    \/ CallPrepareScene
    \/ CallRenderScene
    \/ Destructor
    \/ Step

Spec == Init /\ [][Next]_vars

(***************************************************************************)
(* The interface of the texture registry: CreateGLTexture,                 *)
(* LoadSceneTextures, BindGLTextures and DestroyGLTextures called one      *)
(* after another in any order.                                             *)
(***************************************************************************)
Callable ==
    /\ Running /\ Idle /\ ~destroyed
    /\ calls < MaxCalls

ApiCreateGLTexture ==
    /\ Callable
    /\ m_loadedTextures < MaxLoaded
    /\ \E filename \in ApiFiles, tag \in ApiTags : CreateGLTexture(filename, tag)
    /\ calls' = calls + 1
    /\ UNCHANGED <<m_pShaderManager, sceneVars, glBlendVars, uniforms, files, stack,
                   logVars, frames, prepared, lightCalls, loadCalls, bindCalls, destroyed, lastMode>>

ApiLoadSceneTextures ==
    /\ Running /\ Idle /\ ~destroyed
    /\ loadCalls < MaxLoadCalls
    /\ loadCalls' = loadCalls + 1
    /\ stack' = << <<"LoadSceneTextures", 1>> >>
    /\ UNCHANGED <<m_pShaderManager, regVars, sceneVars, glBlendVars, glTexVars, uniforms,
                   files, ret, logVars, frames, prepared, lightCalls, bindCalls, calls, destroyed,
                   lastMode, faultVars>>

ApiBindGLTextures ==
    /\ Callable
    /\ BindGLTextures
    /\ bindCalls' = bindCalls + 1
    /\ calls' = calls + 1
    /\ UNCHANGED <<m_pShaderManager, sceneVars, glBlendVars, uniforms, files, stack,
                   logVars, frames, prepared, lightCalls, loadCalls, destroyed, lastMode, faultVars>>

ApiDestroyGLTextures ==
    /\ Callable
    /\ DestroyGLTextures
    /\ calls' = calls + 1
    /\ UNCHANGED <<m_pShaderManager, sceneVars, glBlendVars, uniforms, files, stack,
                   logVars, frames, prepared, lightCalls, loadCalls, bindCalls, destroyed, lastMode,
                   faultVars>>

NextRegistry ==
    \/ ApiCreateGLTexture
    \/ ApiLoadSceneTextures
    \/ ApiBindGLTextures
    \/ ApiDestroyGLTextures
    \/ StepCreateGLTexture
    \/ StepBindGLTextures
    \/ ReturnFromFunction

SpecRegistry == Init /\ [][NextRegistry]_vars

(***************************************************************************)
(* The interface of the uniform dispatch: the Set... operations and        *)
(* DefineObjectMaterials called one after another in any order, with any   *)
(* of a few arguments, on a scene manager constructed with or without a    *)
(* shader manager, over a registry filled by direct CreateGLTexture calls. *)
(***************************************************************************)
NominalFiles == CHOOSE fileSystem \in FileSystems :
                    \A f \in DOMAIN fileSystem : f \notin ApiFiles => fileSystem[f] \in {3, 4}

InitDispatch ==
    \E shaderManager \in {"valid", "NULL"} : Constructed(shaderManager, NominalFiles)

ApiColors == {<<1000, 1000, 1000, 1000>>, <<196, 294, 796, 650>>}
ApiMaterialTags == {"glass", "liquid", "lava"}

ApiDefineObjectMaterials ==
    /\ Callable
    /\ \E sin10 \in SceneSines : DefineObjectMaterials(sin10)
    /\ calls' = calls + 1
    /\ UNCHANGED <<m_pShaderManager, regVars, flameColor, meshes, lights, glBlendVars,
                   glTexVars, uniforms, files, stack, ret, logVars, frames, prepared, lightCalls,
                   loadCalls, bindCalls, destroyed, lastMode, faultVars>>

ApiSetTransformations ==
    /\ Running /\ Idle
    /\ SetTransformations("interface")
    /\ UNCHANGED <<m_pShaderManager, regVars, sceneVars, glBlendVars, glTexVars, files,
                   stack, ret, logVars, countVars, lastMode>>

ApiSetShaderColor ==
    /\ Running /\ Idle
    /\ \E color \in ApiColors : SetShaderColor(color)
    /\ lastMode' = "color"
    /\ UNCHANGED <<m_pShaderManager, regVars, sceneVars, glBlendVars, glTexVars, files,
                   stack, ret, logVars, countVars>>

ApiSetShaderTexture ==
    /\ Running /\ Idle
    /\ \E tag \in ApiTags : SetShaderTexture(tag)
    /\ lastMode' = "texture"
    /\ UNCHANGED <<m_pShaderManager, regVars, sceneVars, glBlendVars, glTexVars, files,
                   stack, ret, logVars, countVars>>

ApiSetTextureUVScale ==
    /\ Running /\ Idle
    /\ \E uv \in {<<10, 10>>, <<20, 5>>} : SetTextureUVScale(uv[1], uv[2])
    /\ UNCHANGED <<m_pShaderManager, regVars, sceneVars, glBlendVars, glTexVars, files,
                   stack, ret, logVars, countVars, lastMode>>

ApiSetShaderMaterial ==
    /\ Running /\ Idle
    /\ \E tag \in ApiMaterialTags : SetShaderMaterial(tag)
    /\ UNCHANGED <<m_pShaderManager, regVars, sceneVars, glBlendVars, glTexVars, files,
                   stack, ret, logVars, countVars, lastMode>>

NextDispatch ==
    \/ ApiCreateGLTexture
    \/ ApiDefineObjectMaterials
    \/ ApiSetTransformations
    \/ ApiSetShaderColor
    \/ ApiSetShaderTexture
    \/ ApiSetTextureUVScale
    \/ ApiSetShaderMaterial

SpecDispatch == InitDispatch /\ [][NextDispatch]_vars

(***************************************************************************)
(* The lighting set-up on its own: SetupSceneLights called one time after  *)
(* another at any time (any value of the sine of the time) and with any    *)
(* draws of the random distribution, on a scene manager constructed with   *)
(* or without a shader manager.                                            *)
(***************************************************************************)
ApiSetupSceneLights ==
    /\ Running /\ Idle
    /\ lightCalls < MaxLightCalls
    /\ \E sin3 \in SineSamples, j1 \in JitterSamples, j2 \in JitterSamples,
          j3 \in JitterSamples :
          /\ SetupSceneLights(sin3, j1, j2, j3)
          /\ ret' = <<"SetupSceneLights", sin3, j1, j2, j3>>
    /\ lightCalls' = lightCalls + 1
    /\ UNCHANGED <<m_pShaderManager, regVars, m_objectMaterials, meshes, glBlendVars,
                   glTexVars, uniforms, files, stack, logVars, frames, prepared,
                   loadCalls, bindCalls, calls, destroyed, lastMode>>

NextLights == ApiSetupSceneLights

SpecLights == InitDispatch /\ [][NextLights]_vars

(***************************************************************************)
(* SetTransformations on its own: called with any of a few scales, quarter *)
(* turns about the three axes and positions, on a scene manager            *)
(* constructed with or without a shader manager.                           *)
(***************************************************************************)
TransformScales == {<<1, 1, 1>>, <<2, 3, 4>>}
TransformAngles == {0, 90, 180, 270}
TransformPositions == {<<0, 0, 0>>, <<5, -6, 7>>}

ApiComposeTransformations ==
    /\ Running /\ Idle
    /\ \E scaleXYZ \in TransformScales, XrotationDegrees \in TransformAngles,
          YrotationDegrees \in TransformAngles, ZrotationDegrees \in TransformAngles,
          positionXYZ \in TransformPositions :
          /\ SetTransformations(ComposeModel(scaleXYZ, XrotationDegrees, YrotationDegrees,
                                             ZrotationDegrees, positionXYZ))
          /\ ret' = <<"SetTransformations", scaleXYZ, XrotationDegrees, YrotationDegrees,
                      ZrotationDegrees, positionXYZ>>
    /\ UNCHANGED <<m_pShaderManager, regVars, sceneVars, glBlendVars, glTexVars, files,
                   stack, logVars, countVars, lastMode>>

NextTransform == ApiComposeTransformations

SpecTransform == InitDispatch /\ [][NextTransform]_vars

(***************************************************************************)
(* Properties.                                                             *)
(***************************************************************************)
\* The documented top-level render order.
RenderOrder ==
    <<"RenderTable", "RenderBackdrop", "RenderPotionBottle", "RenderCandle",
      "RenderBottomBook", "RenderTopBook", "RenderCauldron">>

\* The place of a renderer in that order.
Rank(renderer) ==
    CASE renderer = "RenderTable" -> 1
      [] renderer = "RenderBackdrop" -> 2
      [] renderer = "RenderPotionBottle" -> 3
      [] renderer = "RenderCandle" -> 4
      [] renderer = "RenderBottomBook" -> 5
      [] renderer = "RenderTopBook" -> 6
      [] renderer = "RenderCauldron" -> 7

InFunction(function) == stack # << >> /\ Function = function
InRenderer == stack # << >> /\ Function \in Renderers
AtEndOfFunction == stack # << >> /\ Position > Len(Script(Function))
RenderSceneDone == Idle /\ frames > 0

\* C1: every RenderScene invocation runs the seven object renderers once
\* each in the order table, backdrop, potion bottle, candle, bottom book, top
\* book, cauldron: the renderers entered so far are an initial part of that
\* order, all seven have run when RenderScene returns, every draw is issued
\* by a renderer entered, and no draw of a later object precedes a draw of
\* an earlier one (stated of each draw and the next: the order of places is
\* transitive).
C1_RenderOrderFixed ==
    /\ Len(started) <= Len(RenderOrder)
    /\ \A i \in 1 .. Len(started) : started[i] = RenderOrder[i]
    /\ (InFunction("RenderScene") /\ AtEndOfFunction) => started = RenderOrder
    /\ RenderSceneDone => started = RenderOrder
    /\ \A i \in 1 .. Len(drawLog) : Rank(drawLog[i].renderer) <= Len(started)
    /\ \A i \in 1 .. Len(drawLog) - 1 :
          Rank(drawLog[i].renderer) <= Rank(drawLog[i + 1].renderer)
    /\ RenderSceneDone =>
          \A k \in 1 .. Len(RenderOrder) :
             \E i \in 1 .. Len(drawLog) : drawLog[i].renderer = RenderOrder[k]

\* C1, witness: a second RenderScene has returned after drawing.
C1_Witness ==
    /\ Idle /\ frames = 2
    /\ Len(drawLog) > 0
    /\ drawLog[Len(drawLog)].renderer = "RenderCauldron"

\* C2: blending is off whenever an object renderer starts or is about to
\* return, between the renderers of RenderScene, and whenever no operation
\* is running (so after every RenderScene call, in every frame).
C2_BlendOffOutsideRenderers ==
    /\ (InRenderer /\ Position = 1) => ~glBlend
    /\ (InRenderer /\ AtEndOfFunction) => ~glBlend
    /\ InFunction("RenderScene") => ~glBlend
    /\ Idle => ~glBlend

\* C2, witness: a renderer that drew with blending enabled is about to return.
C2_Witness ==
    /\ InRenderer /\ AtEndOfFunction
    /\ frames = 2
    /\ \E i \in 1 .. Len(drawLog) : drawLog[i].renderer = Function /\ drawLog[i].blend

\* A draw is of a transparent part when it is flat-coloured with an alpha
\* below 1; a textured draw, or a flat colour of alpha 1, is opaque.
TransparentDraw(d) == d.bUseTexture = 0 /\ d.objectColor[4] < 1000

\* C3: no opaque part is drawn while blending is enabled.
C3_OnlyTransparentPartsBlended ==
    \A i \in 1 .. Len(drawLog) : drawLog[i].blend => TransparentDraw(drawLog[i])

\* C4: with a shader manager, once SetShaderColor or SetShaderTexture has
\* been called, bUseTexture is 1 exactly when the later of those calls was
\* SetShaderTexture, and it is 0 otherwise.
C4_UseTextureFollowsLastCall ==
    (m_pShaderManager = "valid" /\ lastMode # "none") =>
        /\ uniforms.bUseTexture \in {0, 1}
        /\ uniforms.bUseTexture = 1 <=> lastMode = "texture"

\* C4, witness: SetShaderColor was called after a SetShaderTexture call (which
\* left the sentinel of an unregistered tag in the sampler).
C4_Witness ==
    /\ m_pShaderManager = "valid"
    /\ lastMode = "color"
    /\ uniforms.objectTexture = NoTexture
    /\ uniforms.bUseTexture = 0

\* C5: the number of registered textures never exceeds the capacity of 16,
\* and no registry write lands past slot 15.
C5_CapacityNeverExceeded ==
    /\ m_loadedTextures <= TextureCapacity
    /\ ~oobWrite
    /\ ~ub

\* C6: a CreateGLTexture call whose image has a channel count other than 3
\* or 4 returns false and leaves the number of entries and every entry of
\* the registry as they were.
C6_UnsupportedChannelsLeaveRegistry ==
    [][ (ret'[1] = "CreateGLTexture" /\ files[ret'[2]] \notin {0, 3, 4}) =>
            /\ ret'[4] = FALSE
            /\ m_loadedTextures' = m_loadedTextures
            /\ m_textureIDs' = m_textureIDs ]_vars

\* C6, witness: a call on a 1- or 2-channel image has returned, over a
\* registry that holds entries.
C6_Witness ==
    /\ ret[1] = "CreateGLTexture"
    /\ files[ret[2]] \in {1, 2}
    /\ ret[4] = FALSE
    /\ m_loadedTextures > 0

\* A material of the list carries the tag.
MaterialDefined(tag) ==
    \E i \in 1 .. Len(m_objectMaterials) : m_objectMaterials[i].tag = tag

\* C7: FindMaterial returns false for every tag no defined material carries,
\* also when the list is not empty.
C7_AbsentMaterialNotFound ==
    \A tag \in ApiMaterialTags :
        ~MaterialDefined(tag) => ~FindMaterial(tag, UnassignedMaterial).found

\* The tags of the registered entries.
RegisteredTags == {m_textureIDs[i].tag : i \in 0 .. m_loadedTextures - 1}

\* The tags looked up: those registered, those of the direct calls, a tag
\* of the scene and one that is never registered.
LookupTags == RegisteredTags \cup ApiTags \cup {"wood", "unregistered"}

\* The registered slots that carry the tag.
SlotsTagged(tag) == {i \in 0 .. m_loadedTextures - 1 : m_textureIDs[i].tag = tag}

Lowest(S) == CHOOSE i \in S : \A j \in S : i <= j

\* C8: FindTextureSlot returns the lowest registered index that carries the
\* tag and FindTextureID the handle stored at that index; both return -1
\* when no registered entry carries the tag, whatever the unused slots hold.
C8_LookupFirstMatch ==
    \A tag \in LookupTags :
        LET tagged == SlotsTagged(tag)
        IN  IF tagged = {}
            THEN /\ FindTextureSlot(tag) = -1
                 /\ FindTextureID(tag) = -1
            ELSE /\ FindTextureSlot(tag) = Lowest(tagged)
                 /\ FindTextureID(tag) = m_textureIDs[Lowest(tagged)].ID

\* C8, witness: a tag is registered twice and looked up at its first slot,
\* while the placeholder tag of the unused slots is not found.
C8_Witness ==
    /\ \E tag \in LookupTags :
          /\ Cardinality(SlotsTagged(tag)) >= 2
          /\ FindTextureSlot(tag) = Lowest(SlotsTagged(tag))
    /\ m_loadedTextures < TextureCapacity
    /\ FindTextureSlot(EmptyTag) = -1

\* C9: two distinct registered tags are found at two different slots, each
\* a registered one: every registered tag is found at a registered slot, and
\* there are as many slots found as there are registered tags.
C9_DistinctTagsDistinctSlots ==
    LET found == {FindTextureSlot(tag) : tag \in RegisteredTags}
    IN  /\ found \subseteq 0 .. m_loadedTextures - 1
        /\ Cardinality(found) = Cardinality(RegisteredTags)

\* C9, witness: loads have succeeded and failed, and two distinct tags are
\* registered.
C9_Witness ==
    /\ liveImages > 0
    /\ m_loadedTextures >= 2
    /\ Cardinality(RegisteredTags) >= 2

\* The statement executed last in the running function, if any.
JustExecuted(operation) ==
    /\ stack # << >>
    /\ Position > 1
    /\ Script(Function)[Position - 1][1] = operation

\* C10: once BindGLTextures has run (and until the destructor), registered
\* entry i is bound to texture unit i for every i below the count, so the
\* slot FindTextureSlot returns for a tag is the unit that holds the handle
\* of that tag, and the sampler value SetShaderTexture has just sent is that
\* slot.
C10_EntryBoundToOwnUnit ==
    (bindCalls > 0 /\ ~destroyed) =>
        /\ \A i \in 0 .. m_loadedTextures - 1 : glUnitBinding[i] = m_textureIDs[i].ID
        /\ \A tag \in SceneTags :
              FindTextureSlot(tag) # -1 =>
                  glUnitBinding[FindTextureSlot(tag)] = FindTextureID(tag)
        /\ JustExecuted("SetShaderTexture") =>
              uniforms.objectTexture = FindTextureSlot(Script(Function)[Position - 1][2])

\* C10, witness: after loads of which some failed, SetShaderTexture has just
\* sent a slot other than 0 whose unit holds the texture of the tag.
C10_Witness ==
    /\ bindCalls > 0 /\ ~destroyed
    /\ m_loadedTextures < Len(SceneTextures)
    /\ JustExecuted("SetShaderTexture")
    /\ uniforms.objectTexture > 0
    /\ glUnitBinding[uniforms.objectTexture] =
          FindTextureID(Script(Function)[Position - 1][2])


\* A direct DestroyGLTextures call has just returned.
DestroyReturned ==
    /\ calls' = calls + 1
    /\ ret'[1] = "DestroyGLTextures"
    /\ ~halted'

\* C11: a DestroyGLTextures call releases the texture object of every
\* registered entry and allocates none; a call that follows another
\* DestroyGLTextures call, or one made when no texture is registered, leaves
\* the registry and the texture objects as they were.
C11_DestroyReleasesAndIsIdempotent ==
    [][ DestroyReturned =>
            /\ \A i \in 0 .. m_loadedTextures - 1 : m_textureIDs[i].ID \notin glTextures'
            /\ glGenCount' = glGenCount
            /\ ret[1] = "DestroyGLTextures" => UNCHANGED <<regVars, glTexVars>>
            /\ m_loadedTextures = 0 => UNCHANGED <<regVars, glTexVars>> ]_vars


\* stbi_load decodes each of the nine image files of the scene to an image
\* of 3 or 4 channels.
AllLoadsSucceed ==
    \A i \in 1 .. Len(SceneTextures) : files[SceneTextures[i][1]] \in {3, 4}

\* PrepareScene has returned (and RenderScene may be running).
ScenePrepared ==
    /\ prepared = 1
    /\ Idle \/ stack[1][1] = "RenderScene"

\* RenderScene, or a renderer it has called, is running.
Rendering == stack # << >> /\ stack[1][1] = "RenderScene"

\* C12: after a PrepareScene in which the nine loads succeed, the registry
\* holds 9 textures and the material list 6 materials, FindTextureSlot finds
\* "glass" at a slot of 0..8 and FindMaterial finds "liquid" and hands back
\* the members of the liquid material.
C12_PreparedSceneAnswersLookups ==
    (ScenePrepared /\ AllLoadsSucceed) =>
        /\ m_loadedTextures = 9
        /\ Len(m_objectMaterials) = 6
        /\ FindTextureSlot("glass") \in 0 .. 8
        /\ FindTextureSlot("glass") # NoTexture
        /\ FindMaterial("liquid", UnassignedMaterial).found
        /\ FindMaterial("liquid", UnassignedMaterial).material =
              [diffuseColor |-> <<396, 694, 996, 900>>,
               specularColor |-> <<300, 500, 700>>, shininess |-> 50000]

\* C12, witness: PrepareScene has returned with the nine textures loaded and
\* no frame rendered yet.
C12_Witness ==
    /\ Idle /\ prepared = 1 /\ frames = 0 /\ ~destroyed
    /\ AllLoadsSucceed
    /\ FindTextureSlot("glass") = 1
    /\ MaterialDefined("liquid")

\* C13: while a frame is rendered over a scene prepared with all loads
\* succeeding, the tag of every SetShaderTexture call is found at a
\* registered slot, the sampler value such a call has sent is never -1, and
\* the tag of every SetShaderMaterial call is that of a defined material.
C13_NoLookupFailsWhileRendering ==
    (Rendering /\ AllLoadsSucceed) =>
        /\ At("SetShaderTexture") => FindTextureSlot(Statement[2]) \in 0 .. m_loadedTextures - 1
        /\ JustExecuted("SetShaderTexture") => uniforms.objectTexture # NoTexture
        /\ At("SetShaderMaterial") => MaterialDefined(Statement[2])
        /\ \A i \in 1 .. Len(drawLog) :
              drawLog[i].bUseTexture = 1 => drawLog[i].objectTexture # NoTexture

\* C13, witness: in the second frame the cauldron's renderer has just looked
\* up a texture that is not the first of the registry.
C13_Witness ==
    /\ Rendering /\ AllLoadsSucceed /\ frames = 2
    /\ InFunction("RenderCauldron")
    /\ JustExecuted("SetShaderTexture")
    /\ uniforms.objectTexture > 0


\* C14: no step taken while RenderScene runs (its own, those of the object
\* renderers and those of the dispatch operations they call), nor the call
\* of RenderScene itself, changes an entry of the texture registry, the
\* number of textures or the material list.
C14_RenderingLeavesRegistries ==
    [][ (Rendering \/ Rendering') =>
            /\ m_textureIDs' = m_textureIDs
            /\ m_loadedTextures' = m_loadedTextures
            /\ m_objectMaterials' = m_objectMaterials ]_vars

\* C14, witness: in the second frame SetShaderMaterial has just run over a
\* registry that holds textures and a list that holds the six materials.
C14_Witness ==
    /\ Rendering /\ frames = 2
    /\ JustExecuted("SetShaderMaterial")
    /\ uniforms.bUseTexture = 1
    /\ m_loadedTextures > 0
    /\ Len(m_objectMaterials) = 6


\* PrepareScene, or a function it has called, is running.
Preparing == stack # << >> /\ stack[1][1] = "PrepareScene"

\* The meshes PrepareScene uploads.
PreparedMeshes ==
    {PrepareSceneScript[p][2] :
        p \in {q \in 1 .. Len(PrepareSceneScript) : PrepareSceneScript[q][1] = "LoadMesh"}}

\* C15: BindGLTextures runs at most once, and once when PrepareScene has
\* returned; when it is about to run every CreateGLTexture call of
\* LoadSceneTextures has returned, and no CreateGLTexture call follows it;
\* no draw is issued before or during PrepareScene; and a draw is issued
\* only after the bind, the definition of the six materials and the upload
\* of the meshes.
C15_BindOnceAfterLoadsBeforeDraws ==
    /\ bindCalls <= 1
    /\ ScenePrepared => bindCalls = 1
    /\ (InFunction("LoadSceneTextures") /\ At("BindGLTextures")) =>
          \A p \in 1 .. Len(LoadSceneTexturesScript) :
             LoadSceneTexturesScript[p][1] = "CreateGLTexture" => p < Position
    /\ (bindCalls = 1 /\ ~destroyed) => ret[1] = "BindGLTextures"
    /\ (prepared = 0 \/ Preparing) => (drawLog = << >> /\ frames = 0)
    /\ (Len(drawLog) > 0 /\ ~destroyed) =>
          /\ bindCalls = 1
          /\ Len(m_objectMaterials) = 6
          /\ meshes = PreparedMeshes

\* C15, witness: the first draw of the first frame has been issued.
C15_Witness ==
    /\ Rendering /\ frames = 1
    /\ Len(drawLog) = 1
    /\ bindCalls = 1
    /\ m_loadedTextures > 0


\* The draw of the flame cone: the draw of RenderCandle under the
\* transformation set at line 1238.
FlameDraw(d) == d.renderer = "RenderCandle" /\ d.model = "SceneManager.cpp:1238"

\* The red, green and blue of a colour.
RGB(color) == <<color[1], color[2], color[3]>>

\* C16: the colour RenderCandle passes to SetShaderColor for the flame, and
\* the colour the flame cone is drawn with, have the red, green and blue of
\* the diffuse term last written to pointLights[3] by SetupSceneLights.
C16_FlameDrawnInLightColour ==
    /\ (Rendering /\ JustExecuted("SetShaderColorFlame")) =>
          /\ RGB(uniforms.objectColor) = lights.pointLights[3].diffuse
          /\ uniforms.bUseTexture = 0
    /\ \A i \in 1 .. Len(drawLog) :
          FlameDraw(drawLog[i]) =>
              RGB(drawLog[i].objectColor) = lights.pointLights[3].diffuse

\* C16, witness: the flame cone has been drawn in the second frame, after
\* SetupSceneLights wrote a flame colour to the light.
C16_Witness ==
    /\ frames = 2
    /\ lightCalls > 0
    /\ lights.pointLights[3].diffuse # <<0, 0, 0>>
    /\ Len(drawLog) > 0
    /\ FlameDraw(drawLog[Len(drawLog)])
    /\ drawLog[Len(drawLog)].draw = "Cone"


\* C17: SetupSceneLights has run once more for every RenderScene invocation
\* by the time the object renderers of that invocation run, so that the
\* flame colour and the flame light are recomputed for each frame.
C17_FlameLightRecomputedEveryFrame ==
    (Rendering /\ InRenderer) => lightCalls >= frames


\* C18: the red, green and blue of flameColor lie between 0 and 1 (0 and
\* 1000 thousandths) after every SetupSceneLights call, whatever the sine of
\* the time and the three draws of the distribution.
C18_FlameColourInUnitRange ==
    \A k \in 1 .. 3 : flameColor[k] >= 0 /\ flameColor[k] <= 1000

\* C18, witness: SetupSceneLights has run with the sine at its lowest and
\* the largest draw added to the red, which the clamp cut back to 1.
C18_Witness ==
    /\ ret[1] = "SetupSceneLights"
    /\ ret[2] = -1000
    /\ ret[3] = 30
    /\ flameColor[1] = 1000
    /\ flameColor[2] > 0
    /\ lights.pointLights[3].diffuse = flameColor


\* The point a matrix sends the point v to.
ApplyTo(M, v) ==
    << M[1][1] * v[1] + M[1][2] * v[2] + M[1][3] * v[3] + M[1][4],
       M[2][1] * v[1] + M[2][2] * v[2] + M[2][3] * v[3] + M[2][4],
       M[3][1] * v[1] + M[3][2] * v[2] + M[3][3] * v[3] + M[3][4] >>

\* Scaling, turning about an axis and moving a point.
ScalePoint(s, v) == <<s[1] * v[1], s[2] * v[2], s[3] * v[3]>>
TurnAboutX(d, v) ==
    <<v[1], CosDeg(d) * v[2] - SinDeg(d) * v[3], SinDeg(d) * v[2] + CosDeg(d) * v[3]>>
TurnAboutY(d, v) ==
    <<CosDeg(d) * v[1] + SinDeg(d) * v[3], v[2], CosDeg(d) * v[3] - SinDeg(d) * v[1]>>
TurnAboutZ(d, v) ==
    <<CosDeg(d) * v[1] - SinDeg(d) * v[2], SinDeg(d) * v[1] + CosDeg(d) * v[2], v[3]>>
MovePoint(p, v) == <<v[1] + p[1], v[2] + p[2], v[3] + p[3]>>

\* The origin, the three unit points and a point off every axis: an affine
\* map is fixed by where it sends the first four.
ProbePoints == {<<0, 0, 0>>, <<1, 0, 0>>, <<0, 1, 0>>, <<0, 0, 1>>, <<1, 2, 3>>}

IdentityMatrix ==
    << <<1, 0, 0, 0>>, <<0, 1, 0, 0>>, <<0, 0, 1, 0>>, <<0, 0, 0, 1>> >>

\* C19: the matrix SetTransformations sends to the model uniform scales a
\* point first, then turns it about X, then about Y, then about Z, and moves
\* it last; its fourth row is (0, 0, 0, 1); and for scale (1,1,1), no
\* rotation and position (0,0,0) it is the identity.
C19_ModelIsTranslateRotateZYXScale ==
    (m_pShaderManager = "valid" /\ ret[1] = "SetTransformations") =>
        /\ \A v \in ProbePoints :
              ApplyTo(uniforms.model, v) =
                 MovePoint(ret[6],
                    TurnAboutZ(ret[5],
                       TurnAboutY(ret[4],
                          TurnAboutX(ret[3], ScalePoint(ret[2], v)))))
        /\ uniforms.model[4] = <<0, 0, 0, 1>>
        /\ (ret[2] = <<1, 1, 1>> /\ ret[3] = 0 /\ ret[4] = 0 /\ ret[5] = 0
               /\ ret[6] = <<0, 0, 0>>) => uniforms.model = IdentityMatrix

\* C19, witness: SetTransformations has sent the matrix of an uneven scale,
\* different quarter turns about X and Z and a move.
C19_Witness ==
    /\ m_pShaderManager = "valid"
    /\ ret = <<"SetTransformations", <<2, 3, 4>>, 90, 0, 270, <<5, -6, 7>> >>
    /\ uniforms.model # IdentityMatrix


\* The statements the running renderer has executed for the mesh part it is
\* at: those from the last SetTransformations call before its position on.
PartStatements ==
    LET script == Script(Function)
        starts == {q \in 1 .. Position - 1 : script[q][1] = "SetTransformations"}
        first == IF starts = {} THEN 1 ELSE CHOOSE q \in starts : \A r \in starts : r <= q
    IN  {script[q] : q \in first .. Position - 1}

\* The renderer has called SetTextureUVScale for the mesh part it is at.
PartSetsUVScale == \E statement \in PartStatements : statement[1] = "SetTextureUVScale"

\* C20: a textured draw of a mesh part for which the renderer has not set a
\* UV scale is issued with the UV scale (1, 1) (10 tenths each), not with
\* the scale an earlier part or object left.
C20_OmittedUVScaleIsOne ==
    (Rendering /\ InRenderer /\ At("Draw") /\ uniforms.bUseTexture = 1
        /\ ~PartSetsUVScale) => uniforms.UVscale = <<10, 10>>


\* C21: a renderer issues one draw for each mesh part: when a draw is about
\* to be issued no draw has been issued since the part's SetTransformations
\* call, and when the state writes of the next part begin the part before
\* has been drawn.
C21_OneDrawPerPart ==
    /\ (Rendering /\ InRenderer /\ At("Draw")) =>
          ~ \E statement \in PartStatements : statement[1] = "Draw"
    /\ (Rendering /\ InRenderer /\ At("SetTransformations")
           /\ \E statement \in PartStatements : statement[1] = "SetTransformations") =>
          \E statement \in PartStatements : statement[1] = "Draw"


\* C22: a SetShaderTexture call with a tag no registered entry carries sets
\* bUseTexture to 1 and the sampler to the sentinel -1, executes nothing
\* undefined, does not stop the program, and leaves the registry and the
\* material list as they were.
C22_UnregisteredTagSendsSentinel ==
    [][ (At("SetShaderTexture") /\ FindTextureSlot(Statement[2]) = NoTexture
            /\ stack' # stack) =>
            /\ uniforms'.bUseTexture = 1
            /\ uniforms'.objectTexture = NoTexture
            /\ UNCHANGED <<regVars, m_objectMaterials, faultVars>> ]_vars

\* C22, witness: a renderer has just called SetShaderTexture with the tag of
\* a texture whose load failed, after a draw with a registered texture.
C22_Witness ==
    /\ Rendering
    /\ JustExecuted("SetShaderTexture")
    /\ FindTextureSlot(Script(Function)[Position - 1][2]) = NoTexture
    /\ uniforms.objectTexture = NoTexture
    /\ uniforms.bUseTexture = 1
    /\ \E i \in 1 .. Len(drawLog) : drawLog[i].objectTexture > 0


\* The loads of LoadSceneTextures whose image decodes to 3 or 4 channels,
\* in load order.
Loadable(texture) == files[texture[1]] \in {3, 4}
LoadedInOrder == SelectSeq(SceneTextures, Loadable)

\* C23: when LoadSceneTextures has run, the registry holds the textures
\* whose load succeeded, one fewer per failed load, at the slots 0..count-1
\* in load order, and the tag of a failed load is looked up as -1 while the
\* tag of every other load is found.
C23_FailedLoadIsSkipped ==
    ScenePrepared =>
        /\ m_loadedTextures = Len(LoadedInOrder)
        /\ \A i \in 1 .. Len(LoadedInOrder) :
              /\ m_textureIDs[i - 1].tag = LoadedInOrder[i][2]
              /\ FindTextureSlot(LoadedInOrder[i][2]) = i - 1
        /\ \A i \in 1 .. Len(SceneTextures) :
              ~Loadable(SceneTextures[i]) =>
                  /\ FindTextureSlot(SceneTextures[i][2]) = NoTexture
                  /\ FindTextureID(SceneTextures[i][2]) = NoTexture

\* C23, witness: PrepareScene has returned after a load that decoded no
\* image and one of an unsupported channel count, with the last texture of
\* the scene two slots lower than its place in the load order.
C23_Witness ==
    /\ Idle /\ prepared = 1 /\ ~destroyed
    /\ files["textures/glass.jpg"] = 0
    /\ files["textures/leather.png"] = 2
    /\ m_loadedTextures = 7
    /\ FindTextureSlot("wood") = 6
    /\ FindTextureSlot("glass") = NoTexture


\* C24: once SetupSceneLights has run with a shader manager, the directional
\* light and the spotlight are active, each of the point lights 0..3 has its
\* position, ambient, diffuse and specular terms and its active flag
\* written, and the fourth point light carries the flame colour.
C24_AllPointLightsConfigured ==
    (m_pShaderManager = "valid" /\ lightCalls > 0) =>
        /\ lights.bUseLighting
        /\ lights.directionalLight.bActive
        /\ lights.spotLight.bActive
        /\ \A i \in 0 .. 3 :
              /\ lights.pointLights[i].bActive
              /\ lights.pointLights[i] # NoLight
        /\ lights.pointLights[3].diffuse = flameColor

\* A CreateGLTexture call, direct or from LoadSceneTextures, has just
\* returned.
CreateReturned ==
    /\ ret'[1] = "CreateGLTexture"
    /\ calls' = calls + 1 \/ stack' # stack
    /\ ~halted'

\* C25: when a CreateGLTexture call returns, with either value, no decoded
\* image is left allocated, the texture the call bound is no longer bound
\* to the 2D target of the active unit, and every texture object the call
\* generated is registered in the table or was deleted.
C25_CreateReleasesWhatItTook ==
    [][ CreateReturned =>
            /\ liveImages' = 0
            /\ glUnitBinding'[glActiveUnit'] \notin (glTextures' \ glTextures)
            /\ \A name \in glTextures' \ glTextures :
                  \E i \in 0 .. m_loadedTextures' - 1 : m_textureIDs'[i].ID = name ]_vars

\* C26: on a scene manager without a shader manager no dispatch operation
\* dereferences the pointer, stops the program or changes a uniform.
C26_NullShaderManagerIsNoOp ==
    m_pShaderManager = "NULL" =>
        /\ ~ub
        /\ ~halted
        /\ uniforms = InitialUniforms

\* C27: every draw of a frame reads a mesh that PrepareScene uploaded.
C27_DrawnMeshesUploaded ==
    \A i \in 1 .. Len(drawLog) : drawLog[i].uploaded

=============================================================================
